---- MODULE Spec2Model ----
(***************************************************************************)
(* Union (cross-product) construction of two DFAs, its validator and its   *)
(* JSON writer, modelled from src/ProjectCode.py.                          *)
(*                                                                         *)
(* A JSON object is a function from its keys (strings) to its values, a    *)
(* JSON array is a sequence, a Python set is a set, a Python dict is a     *)
(* function; a dict whose insertion order is read by the code carries a    *)
(* sequence of its keys beside it.  A tuple (s1, s2) is <<s1, s2>>.        *)
(***************************************************************************)
EXTENDS Integers, Sequences, FiniteSets, TLC

VARIABLES
    pc,                 \* position in __main__ / in validateUnionDFA
    file1, file2,       \* sys.argv[1], sys.argv[2]: the documents at those paths
    dfa1, dfa2,         \* results of readDFA
    union_states,       \* productStates
    union_transitions,  \* productTransitions
    union_accepts,      \* productAcceptStates
    union_start,        \* productStartState
    iterOrder,          \* the order in which `for state in productStates` iterates
    errors,             \* validateUnionDFA: errors
    reachable,          \* validateUnionDFA: reachable
    stack,              \* validateUnionDFA: stack
    adds,               \* number of times reachable.add(cur) ran, per state
    validation,         \* the value validateUnionDFA returned (or that it raised)
    outFile,            \* contents of UnionDFA.json, NoFile while not written
    reloaded,           \* readDFA("UnionDFA.json"), when the written file is read back
    runA, runB, runU,   \* current states of dfa1, dfa2 and the union on a common input
    word,               \* number of symbols read so far, -1 before the run starts
    log                 \* the stages of __main__ that have run, with their outcomes

vars == <<pc, file1, file2, dfa1, dfa2, union_states, union_transitions,
          union_accepts, union_start, iterOrder, errors, reachable, stack, adds,
          validation, outFile, reloaded, runA, runB, runU, word, log>>

----------------------------------------------------------------------------
(* Bounds of the model *)

\* longest input word the lockstep run reads
MaxWord == 3

\* input symbols used in the documents
Symbols == {"0", "1"}

\* a name that is no state of either automaton; the states of the first automaton
\* are named "a" and "a,b", those of the second "c" and "b,c"
Stray == "z"

----------------------------------------------------------------------------
(* Helpers for Python containers *)

\* d[k] = v on a dict d
Put(d, k, v) == [x \in (DOMAIN d) \cup {k} |-> IF x = k THEN v ELSE d[x]]

\* the keys of a dict after d[k] = v: a new key goes last, an old key stays
PutKey(keys, k) == IF \E i \in 1..Len(keys) : keys[i] = k THEN keys ELSE Append(keys, k)

Range(seq) == {seq[i] : i \in 1..Len(seq)}

\* all orders in which a finite set can be iterated
Orders(S) == {seq \in [1..Cardinality(S) -> S] : Range(seq) = S}

\* Python's order on the strings in use (code point order, a prefix first)
StrOrder == <<"a", "a,b", "b,c", "c", "z">>

StrRank(s) == CHOOSE i \in 1..Len(StrOrder) : StrOrder[i] = s

\* t < u on tuples of two strings
TupleLess(t, u) ==
    \/ StrRank(t[1]) < StrRank(u[1])
    \/ t[1] = u[1] /\ StrRank(t[2]) < StrRank(u[2])

\* sorted(S) for a set of tuples
sorted(S) == CHOOSE seq \in Orders(S) :
                 \A i \in 1..Len(seq), j \in 1..Len(seq) : i < j => TupleLess(seq[i], seq[j])

----------------------------------------------------------------------------
(* readDFA *)

NoDFA == [states |-> {}, transitions |-> <<>>, keys |-> <<>>, start |-> "", accepts |-> {}]

Raise(msg) == [ok |-> FALSE, err |-> msg, dfa |-> NoDFA]

Return(d) == [ok |-> TRUE, err |-> "", dfa |-> d]

keyCheck == <<"states", "start-state", "accept-states">>

\* Python truthiness of a document value: [] and "" and 0 are falsy
Falsy(key, v) ==
    IF key = "start-state" THEN (v.t = "str" /\ v.v = "") \/ (v.t = "num" /\ v.v = "0")
    ELSE v = <<>>

\* str.strip() leaves nothing
Blank(s) == s \in {"", " "}

\* lines 17-21: the first key that is missing or empty, 0 if none
FirstBadKey(data) ==
    LET bad == {i \in 1..Len(keyCheck) :
                   \/ keyCheck[i] \notin DOMAIN data
                   \/ Falsy(keyCheck[i], data[keyCheck[i]])}
    IN  IF bad = {} THEN 0 ELSE CHOOSE i \in bad : \A j \in bad : i <= j

\* lines 33-41: the loop over DFAData["states"]
RECURSIVE ExtractStates(_, _, _)
ExtractStates(entries, i, acc) ==
    IF i > Len(entries) THEN Return(acc)
    ELSE LET entry == entries[i] IN
         IF "state" \notin DOMAIN entry
         THEN Raise("Each state entry must have a 'state' key")
         ELSE LET stateName == entry["state"]
                  trans == [symbol \in (DOMAIN entry) \ {"state"} |-> entry[symbol]]
              IN  IF DOMAIN trans = {}
                  THEN Raise("State must have at least one transition")
                  ELSE ExtractStates(entries, i + 1,
                          [acc EXCEPT !.states = @ \cup {stateName},
                                      !.transitions = Put(@, stateName, trans),
                                      !.keys = PutKey(@, stateName)])

\* lines 44-47: the loop over DFAData["accept-states"]
ExtractAccepts(accs, d) ==
    IF \E i \in 1..Len(accs) : "state" \notin DOMAIN accs[i]
    THEN Raise("Each accept state entry must have a 'state' key")
    ELSE Return([d EXCEPT !.accepts = {accs[i]["state"] : i \in 1..Len(accs)}])

readDFA(file) ==
    IF file.kind = "notjson" THEN Raise("not a valid JSON file")
    ELSE IF file.kind = "nofile" THEN Raise("File not found")
    ELSE LET DFAData == file.data
             k == FirstBadKey(DFAData)
         IN  IF k # 0
             THEN IF keyCheck[k] \notin DOMAIN DFAData
                  THEN Raise("Missing key")
                  ELSE Raise("cannot be empty")
             ELSE LET startState == DFAData["start-state"] IN
                  IF startState.t # "str" \/ Blank(startState.v)
                  THEN Raise("'start-state' must be a valid and non-empty string")
                  ELSE LET st == ExtractStates(DFAData["states"], 1,
                                               [NoDFA EXCEPT !.start = startState.v])
                       IN  IF ~st.ok THEN st
                           ELSE ExtractAccepts(DFAData["accept-states"], st.dfa)

----------------------------------------------------------------------------
(* The union constructor *)

generateUnionStates(d1, d2) == d1.states \X d2.states

\* a variant that reads the symbols off the first state alone
UnionSymbolsOfFirstState(d1) == DOMAIN d1.transitions[d1.keys[1]]

\* lines 65-67: the symbols of every state of dfa1
UnionSymbols(d1) == UNION {DOMAIN d1.transitions[s] : s \in DOMAIN d1.transitions}

\* lines 74-75 raise KeyError
MissingTransition(d1, d2, p, symbol) ==
    \/ p[1] \notin DOMAIN d1.transitions
    \/ p[2] \notin DOMAIN d2.transitions
    \/ symbol \notin DOMAIN d1.transitions[p[1]]
    \/ symbol \notin DOMAIN d2.transitions[p[2]]

\* a variant that leaves the second component where it is
generateUnionTransitionsSecondHeld(d1, d2, productStates) ==
    LET symbols == UnionSymbols(d1) IN
    IF \E p \in productStates, symbol \in symbols : MissingTransition(d1, d2, p, symbol)
    THEN [ok |-> FALSE, transitions |-> <<>>]
    ELSE [ok |-> TRUE,
          transitions |-> [p \in productStates |->
                             [symbol \in symbols |-> <<d1.transitions[p[1]][symbol], p[2]>>]]]

\* a variant that skips a symbol with a missing lookup and returns a partial table
generateUnionTransitionsPartial(d1, d2, productStates) ==
    [ok |-> TRUE,
     transitions |-> [p \in productStates |->
                        [symbol \in {x \in UnionSymbols(d1) : ~MissingTransition(d1, d2, p, x)} |->
                           <<d1.transitions[p[1]][symbol], d2.transitions[p[2]][symbol]>>]]]

generateUnionTransitions(d1, d2, productStates) ==
    LET symbols == UnionSymbols(d1) IN
    IF \E p \in productStates, symbol \in symbols : MissingTransition(d1, d2, p, symbol)
    THEN [ok |-> FALSE, transitions |-> <<>>]
    ELSE [ok |-> TRUE,
          transitions |-> [p \in productStates |->
                             [symbol \in symbols |->
                                <<d1.transitions[p[1]][symbol], d2.transitions[p[2]][symbol]>>]]]

\* a variant that accepts when both automata accept
generateUnionAcceptStatesBoth(d1, d2, productStates) ==
    {p \in productStates : p[1] \in d1.accepts /\ p[2] \in d2.accepts}

generateUnionAcceptStates(d1, d2, productStates) ==
    {p \in productStates : p[1] \in d1.accepts \/ p[2] \in d2.accepts}

generateUnionStartState(d1, d2) == <<d1.start, d2.start>>

----------------------------------------------------------------------------
(* validateUnionDFA *)

NoState == <<"", "">>

\* one element of the errors list
Finding(kind, state, symbol, nxt, set) ==
    [kind |-> kind, state |-> state, symbol |-> symbol, nxt |-> nxt, set |-> set]

\* the order in which the symbols of a dict are iterated
SymOrder == <<"0", "1">>

SymbolSeq(S) == SelectSeq(SymOrder, LAMBDA symbol : symbol \in S)

\* line 112: next(iter(dfa1["transitions"].values())) raises StopIteration on an empty dict
RaisesStopIteration(d1) == Len(d1.keys) = 0

\* line 112: the keys of the first state of dfa1
RefSymbols(d1) == DOMAIN d1.transitions[d1.keys[1]]

\* lines 104-105
StartFindings(productStates, productStartState) ==
    IF productStartState \notin productStates
    THEN <<Finding("start", productStartState, "", NoState, {})>>
    ELSE <<>>

\* lines 113-119: the findings of one symbol of one state
SymbolFindings(state, symbol, productStates, productTransitions) ==
    IF symbol \notin DOMAIN productTransitions[state]
    THEN <<Finding("missing", state, symbol, NoState, {})>>
    ELSE LET nxt == productTransitions[state][symbol] IN
         IF nxt \notin productStates
         THEN <<Finding("invalid", state, symbol, nxt, {})>>
         ELSE <<>>

RECURSIVE SymbolLoop(_, _, _, _, _)
SymbolLoop(state, symbols, i, productStates, productTransitions) ==
    IF i > Len(symbols) THEN <<>>
    ELSE SymbolFindings(state, symbols[i], productStates, productTransitions)
         \o SymbolLoop(state, symbols, i + 1, productStates, productTransitions)

\* lines 108-119: the loop over productStates, in the order the set iterates;
\* raised is set when line 112 raised
RECURSIVE StateLoop(_, _, _, _, _, _)
StateLoop(d1, order, i, productStates, productTransitions, acc) ==
    IF i > Len(order) THEN [raised |-> FALSE, errors |-> acc]
    ELSE LET state == order[i] IN
         IF state \notin DOMAIN productTransitions
         THEN StateLoop(d1, order, i + 1, productStates, productTransitions,
                        Append(acc, Finding("notrans", state, "", NoState, {})))
         ELSE IF RaisesStopIteration(d1)
         THEN [raised |-> TRUE, errors |-> acc]
         ELSE StateLoop(d1, order, i + 1, productStates, productTransitions,
                        acc \o SymbolLoop(state, SymbolSeq(RefSymbols(d1)), 1,
                                          productStates, productTransitions))

\* lines 122-124
AcceptFindings(productStates, productAcceptStates) ==
    LET bad == productAcceptStates \ productStates
        seq == CHOOSE q \in Orders(bad) : TRUE
    IN  [i \in 1..Len(seq) |-> Finding("accept", seq[i], "", NoState, {})]

\* a variant that returns at the first failed check
ChecksStoppingEarly(d1, order, productStates, productTransitions, productStartState, productAcceptStates) ==
    LET start == StartFindings(productStates, productStartState)
        st == StateLoop(d1, order, 1, productStates, productTransitions, start)
    IN  IF start # <<>> THEN [raised |-> FALSE, errors |-> start]
        ELSE IF st.raised \/ st.errors # <<>> THEN st
        ELSE [raised |-> FALSE,
              errors |-> AcceptFindings(productStates, productAcceptStates)]

\* lines 101-124: the errors collected before the reachability check
Checks(d1, order, productStates, productTransitions, productStartState, productAcceptStates) ==
    LET st == StateLoop(d1, order, 1, productStates, productTransitions,
                        StartFindings(productStates, productStartState))
    IN  IF st.raised THEN st
        ELSE [raised |-> FALSE,
              errors |-> st.errors \o AcceptFindings(productStates, productAcceptStates)]

\* line 131: stack.pop() takes the last element
PopIndex(stk) == Len(stk)

RemoveAt(stk, i) == [j \in 1..(Len(stk) - 1) |-> IF j < i THEN stk[j] ELSE stk[j + 1]]

\* a variant that follows the first symbol of a state only
ValuesOfFirstSymbol(productTransitions, cur) ==
    IF cur \in DOMAIN productTransitions /\ DOMAIN productTransitions[cur] # {}
    THEN <<productTransitions[cur][SymbolSeq(DOMAIN productTransitions[cur])[1]]>>
    ELSE <<>>

\* line 135: productTransitions.get(cur, {}).values()
Values(productTransitions, cur) ==
    IF cur \in DOMAIN productTransitions
    THEN LET syms == SymbolSeq(DOMAIN productTransitions[cur])
         IN  [i \in 1..Len(syms) |-> productTransitions[cur][syms[i]]]
    ELSE <<>>

\* a variant without the test of line 132
VisitAgain(cur, rest, reach, productTransitions) ==
    LET r2 == reach \cup {cur} IN
    [stack |-> rest \o SelectSeq(Values(productTransitions, cur), LAMBDA nxt : nxt \notin r2),
     reachable |-> r2,
     added |-> TRUE]

\* lines 132-137: one iteration of the while loop, cur popped and rest left on the stack
Visit(cur, rest, reach, productTransitions) ==
    IF cur \in reach
    THEN [stack |-> rest, reachable |-> reach, added |-> FALSE]
    ELSE LET r2 == reach \cup {cur} IN
         [stack |-> rest \o SelectSeq(Values(productTransitions, cur),
                                      LAMBDA nxt : nxt \notin r2),
          reachable |-> r2,
          added |-> TRUE]

\* lines 138-140
UnreachableFindings(productStates, reach) ==
    LET unreachable == productStates \ reach IN
    IF unreachable # {}
    THEN <<Finding("unreachable", NoState, "", NoState, unreachable)>>
    ELSE <<>>

\* lines 143-146
Report(errs) ==
    IF errs # <<>>
    THEN [result |-> "Validation Fail", errors |-> errs]
    ELSE [result |-> "Validation Success", errors |-> <<>>]

NoValidation == [result |-> "none", errors |-> <<>>]

StopIteration == [result |-> "StopIteration", errors |-> <<>>]

----------------------------------------------------------------------------
(* outputUnionDFA *)

\* lines 173-174
tup_to_name(t) == t[1] \o "," \o t[2]

\* lines 179-181: the JSON entry of one state; entry[symbol] = ... overwrites a key
StateEntry(state, trans) ==
    [k \in {"state"} \cup DOMAIN trans |->
        IF k \in DOMAIN trans THEN tup_to_name(trans[k]) ELSE tup_to_name(state)]

\* lines 177-192: the JSON object written to the file
outputUnionDFA(states, transitions, startState, acceptStates) ==
    LET ss == sorted(states)
        as == sorted(acceptStates)
        jsonStatesList == [i \in 1..Len(ss) |-> StateEntry(ss[i], transitions[ss[i]])]
        jsonAcceptList == [i \in 1..Len(as) |-> [state |-> tup_to_name(as[i])]]
    IN  [kind |-> "json",
         data |-> [k \in {"states", "start-state", "accept-states"} |->
                     CASE k = "states" -> jsonStatesList
                       [] k = "start-state" -> [t |-> "str", v |-> tup_to_name(startState)]
                       [] k = "accept-states" -> jsonAcceptList]]

NoFile == [kind |-> "nofile", data |-> <<>>]

----------------------------------------------------------------------------
(* The input documents of the model *)

Json(states, start, accepts) ==
    [kind |-> "json",
     data |-> [k \in {"states", "start-state", "accept-states"} |->
                 CASE k = "states" -> states
                   [] k = "start-state" -> start
                   [] k = "accept-states" -> accepts]]

Str(s) == [t |-> "str", v |-> s]

\* the entries of state `name`: symbol 0 leads to any name, symbol 1 is absent or
\* leads to any name
Entries(name, Names) ==
    {[k \in {"state", "0"} |-> IF k = "state" THEN name ELSE d] : d \in Names}
    \cup {[k \in {"state", "0", "1"} |->
             IF k = "state" THEN name ELSE IF k = "0" THEN d0 ELSE d1] :
          d0 \in Names, d1 \in Names}

\* the state lists over the names n1, n2: n1 alone, n2 alone, or n1 then n2
StateLists(n1, n2) ==
    {<<e>> : e \in Entries(n1, {n1, n2}) \cup Entries(n2, {n1, n2})}
    \cup {<<e1, e2>> : e1 \in Entries(n1, {n1, n2}), e2 \in Entries(n2, {n1, n2})}

GoodDocs(n1, n2, StartNames, AcceptNames) ==
    {Json(sl, Str(st), <<[state |-> acc]>>) :
        sl \in StateLists(n1, n2), st \in StartNames, acc \in AcceptNames}

\* documents readDFA rejects, one for each raise
BadDocs ==
    LET e == [k \in {"state", "0"} |-> "a"]
        ok == Json(<<e>>, Str("a"), <<[state |-> "a"]>>)
    IN  { [kind |-> "notjson", data |-> <<>>],
          NoFile,
          [ok EXCEPT !.data = [k \in {"states", "start-state"} |-> ok.data[k]]],
          Json(<<>>, Str("a"), <<[state |-> "a"]>>),
          Json(<<e>>, Str(""), <<[state |-> "a"]>>),
          Json(<<e>>, Str(" "), <<[state |-> "a"]>>),
          Json(<<e>>, [t |-> "num", v |-> "7"], <<[state |-> "a"]>>),
          Json(<<e>>, Str("a"), <<>>),
          Json(<<[k \in {"0"} |-> "a"]>>, Str("a"), <<[state |-> "a"]>>),
          Json(<<[state |-> "a"]>>, Str("a"), <<[state |-> "a"]>>),
          Json(<<e>>, Str("a"), <<[name |-> "a"]>>) }

Docs1 == GoodDocs("a", "a,b", {"a", "a,b"}, {"a", Stray}) \cup BadDocs

Docs2 == GoodDocs("c", "b,c", {"c"}, {"c", Stray}) \cup BadDocs

----------------------------------------------------------------------------
(* __main__ *)

NotRead == [ok |-> FALSE, err |-> "not read", dfa |-> NoDFA]

\* nothing validated, written or run yet
Fresh ==
    /\ iterOrder = <<>> /\ errors = <<>> /\ reachable = {} /\ stack = <<>>
    /\ adds = <<>>
    /\ validation = NoValidation
    /\ outFile = NoFile /\ reloaded = NotRead
    /\ runA = "" /\ runB = "" /\ runU = NoState /\ word = -1
    /\ log = <<>>

Init ==
    /\ pc = "read1"
    /\ file1 \in Docs1
    /\ file2 \in Docs2
    /\ dfa1 = NotRead /\ dfa2 = NotRead
    /\ union_states = {} /\ union_transitions = <<>>
    /\ union_accepts = {} /\ union_start = NoState
    /\ Fresh

validatorVars == <<iterOrder, errors, reachable, stack, adds, validation>>
unionVars == <<union_states, union_transitions, union_accepts, union_start>>
runVars == <<runA, runB, runU, word>>

\* line 211; a ValueError is caught at line 213 and the process exits
ReadFirst ==
    /\ pc = "read1"
    /\ dfa1' = readDFA(file1)
    /\ pc' = IF dfa1'.ok THEN "read2" ELSE "exit"
    /\ log' = Append(log, IF dfa1'.ok THEN "read1 ok" ELSE "read1 error")
    /\ UNCHANGED <<file1, file2, dfa2, unionVars, validatorVars, outFile, reloaded, runVars>>

\* line 212
ReadSecond ==
    /\ pc = "read2"
    /\ dfa2' = readDFA(file2)
    /\ pc' = IF dfa2'.ok THEN "states" ELSE "exit"
    /\ log' = Append(log, IF dfa2'.ok THEN "read2 ok" ELSE "read2 error")
    /\ UNCHANGED <<file1, file2, dfa1, unionVars, validatorVars, outFile, reloaded, runVars>>

\* line 218
GenStates ==
    /\ pc = "states"
    /\ union_states' = generateUnionStates(dfa1.dfa, dfa2.dfa)
    /\ pc' = "transitions"
    /\ UNCHANGED <<file1, file2, dfa1, dfa2, union_transitions, union_accepts, union_start,
                   validatorVars, outFile, reloaded, runVars, log>>

\* lines 219-220; the ValueError of generateUnionTransitions is not caught
GenTransitions ==
    /\ pc = "transitions"
    /\ LET transitionData == generateUnionTransitions(dfa1.dfa, dfa2.dfa, union_states) IN
       /\ union_transitions' = transitionData.transitions
       /\ pc' = IF transitionData.ok THEN "accepts" ELSE "error"
       /\ log' = Append(log, IF transitionData.ok THEN "construct ok" ELSE "construct error")
    /\ UNCHANGED <<file1, file2, dfa1, dfa2, union_states, union_accepts, union_start,
                   validatorVars, outFile, reloaded, runVars>>

\* line 221
GenAccepts ==
    /\ pc = "accepts"
    /\ union_accepts' = generateUnionAcceptStates(dfa1.dfa, dfa2.dfa, union_states)
    /\ pc' = "start"
    /\ UNCHANGED <<file1, file2, dfa1, dfa2, union_states, union_transitions, union_start,
                   validatorVars, outFile, reloaded, runVars, log>>

\* line 222
GenStart ==
    /\ pc = "start"
    /\ union_start' = generateUnionStartState(dfa1.dfa, dfa2.dfa)
    /\ pc' = "validate"
    /\ UNCHANGED <<file1, file2, dfa1, dfa2, union_states, union_transitions, union_accepts,
                   validatorVars, outFile, reloaded, runVars, log>>

\* validateUnionDFA, lines 101-128: the checks before the traversal
VChecks ==
    /\ pc = "validate"
    /\ \E order \in Orders(union_states) :
          LET c == Checks(dfa1.dfa, order, union_states, union_transitions,
                          union_start, union_accepts)
          IN  /\ iterOrder' = order
              /\ errors' = c.errors
              /\ IF c.raised
                 THEN /\ pc' = "raised"
                      /\ validation' = StopIteration
                      /\ log' = Append(log, "validate raised")
                      /\ UNCHANGED <<reachable, stack, adds>>
                 ELSE /\ pc' = "traverse"
                      /\ reachable' = {}
                      /\ stack' = <<union_start>>
                      /\ adds' = [p \in {} |-> 0]
                      /\ UNCHANGED <<validation, log>>
    /\ UNCHANGED <<file1, file2, dfa1, dfa2, unionVars, outFile, reloaded, runVars>>

\* the while loop of lines 130-137 with the element at index i taken off the stack
Iterate(i) ==
    LET v == Visit(stack[i], RemoveAt(stack, i), reachable, union_transitions) IN
    /\ stack' = v.stack
    /\ reachable' = v.reachable
    /\ adds' = IF v.added
               THEN Put(adds, stack[i], IF stack[i] \in DOMAIN adds THEN adds[stack[i]] + 1 ELSE 1)
               ELSE adds
    /\ UNCHANGED <<pc, file1, file2, dfa1, dfa2, unionVars, iterOrder, errors, validation,
                   outFile, reloaded, runVars, log>>

\* lines 130-137: one iteration of the while loop
VLoop ==
    /\ pc = "traverse"
    /\ stack # <<>>
    /\ Iterate(PopIndex(stack))

\* lines 138-146: the loop has ended
VReturn ==
    /\ pc = "traverse"
    /\ stack = <<>>
    /\ errors' = errors \o UnreachableFindings(union_states, reachable)
    /\ validation' = Report(errors')
    /\ pc' = "validated"
    /\ log' = Append(log, IF validation'.result = "Validation Success"
                          THEN "validate ok" ELSE "validate fail")
    /\ UNCHANGED <<file1, file2, dfa1, dfa2, unionVars, iterOrder, reachable, stack, adds,
                   outFile, reloaded, runVars>>

\* a variant that takes every validation for a success
ValidationPassedAlways(v) == v.result \in {"Validation Success", "Validation Fail"}

\* line 234
ValidationPassed(v) == v.result = "Validation Success"

\* lines 235-243
Output ==
    /\ pc = "validated"
    /\ ValidationPassed(validation)
    /\ outFile' = outputUnionDFA(union_states, union_transitions, union_start, union_accepts)
    /\ pc' = "done"
    /\ log' = Append(log, "output")
    /\ UNCHANGED <<file1, file2, dfa1, dfa2, unionVars, validatorVars, reloaded, runVars>>

\* lines 245-248
PrintFail ==
    /\ pc = "validated"
    /\ ~ValidationPassed(validation)
    /\ pc' = "failed"
    /\ UNCHANGED <<file1, file2, dfa1, dfa2, unionVars, validatorVars, outFile, reloaded,
                   runVars, log>>

Construct == GenStates \/ GenTransitions \/ GenAccepts \/ GenStart

Validate == VChecks \/ VLoop \/ VReturn

Next == ReadFirst \/ ReadSecond \/ Construct \/ Validate \/ Output \/ PrintFail

Spec == Init /\ [][Next]_vars

----------------------------------------------------------------------------
(* The written file read back by readDFA *)

ReadBack ==
    /\ pc = "done"
    /\ reloaded' = readDFA(outFile)
    /\ pc' = "reloaded"
    /\ UNCHANGED <<file1, file2, dfa1, dfa2, unionVars, validatorVars, outFile, runVars, log>>

RoundTripNext == Next \/ ReadBack

RoundTripSpec == Init /\ [][RoundTripNext]_vars

----------------------------------------------------------------------------
(* The two automata and their union run on a common input word *)

\* the start state and every destination of d are states of d
WellFormed(d) ==
    /\ d.start \in d.states
    /\ \A s \in DOMAIN d.transitions : \A symbol \in DOMAIN d.transitions[s] :
          d.transitions[s][symbol] \in d.states

\* one step of a DFA: the destination of state s on symbol in table
Step(table, s, symbol) == table[s][symbol]

RunStart ==
    /\ pc = "validate"
    /\ WellFormed(dfa1.dfa) /\ WellFormed(dfa2.dfa)
    /\ runA' = dfa1.dfa.start
    /\ runB' = dfa2.dfa.start
    /\ runU' = union_start
    /\ word' = 0
    /\ pc' = "run"
    /\ UNCHANGED <<file1, file2, dfa1, dfa2, unionVars, validatorVars, outFile, reloaded, log>>

RunStep ==
    /\ pc = "run"
    /\ word < MaxWord
    /\ \E symbol \in UnionSymbols(dfa1.dfa) :
          /\ runA' = Step(dfa1.dfa.transitions, runA, symbol)
          /\ runB' = Step(dfa2.dfa.transitions, runB, symbol)
          /\ runU' = Step(union_transitions, runU, symbol)
    /\ word' = word + 1
    /\ UNCHANGED <<pc, file1, file2, dfa1, dfa2, unionVars, validatorVars, outFile, reloaded, log>>

RunNext == ReadFirst \/ ReadSecond \/ Construct \/ RunStart \/ RunStep

RunSpec == Init /\ [][RunNext]_vars

----------------------------------------------------------------------------
(* validateUnionDFA called on its own, with any arguments *)

P1 == <<"a", "c">>
P2 == <<"a,b", "c">>
P3 == <<"a", "b,c">>

\* the first automaton: no state at all, one state with symbol 0, one with 0 and 1
ArgDfas ==
    { [NotRead EXCEPT !.ok = TRUE, !.err = ""],
      readDFA(Json(<<[k \in {"state", "0"} |-> "a"]>>, Str("a"), <<[state |-> "a"]>>)),
      readDFA(Json(<<[k \in {"state", "0", "1"} |-> "a"]>>, Str("a"), <<[state |-> "a"]>>)) }

\* the transition entries of one product state
ArgEntries == UNION {[S -> {P1, P2, P3}] : S \in {{}, {"0"}, {"0", "1"}}}

\* transition tables with entries for some of P1, P2
ArgTables == UNION {[D -> ArgEntries] : D \in SUBSET {P1, P2}}

ValInit ==
    /\ pc = "validate"
    /\ file1 = NoFile /\ file2 = NoFile
    /\ dfa2 = NotRead
    /\ Fresh
    /\ dfa1 \in ArgDfas
    /\ union_states \in SUBSET {P1, P2, P3}
    /\ union_transitions \in ArgTables
    /\ union_start \in {P1, P3}
    /\ union_accepts \in {{}, {P1}, {P3}}

ValSpec == ValInit /\ [][Validate]_vars

\* the traversal with any element of the stack taken next
VLoopAny ==
    /\ pc = "traverse"
    /\ stack # <<>>
    /\ \E i \in 1..Len(stack) : Iterate(i)

TraverseNext == VChecks \/ VLoopAny \/ VReturn

TraverseSpec == ValInit /\ [][TraverseNext]_vars /\ WF_vars(TraverseNext)

----------------------------------------------------------------------------
(* Claims about the union constructor *)

A == dfa1.dfa
B == dfa2.dfa

\* generateUnionTransitions has returned or raised
Constructed == \E i \in 1..Len(log) : log[i] \in {"construct ok", "construct error"}

\* the symbols found on any state of the first automaton
UniverseOfA == {s \in Symbols : \E a \in A.states : s \in DOMAIN A.transitions[a]}

\* both lookups exist for every pair of the product and every symbol of the universe
AllLookupsDefined ==
    \A a \in A.states, b \in B.states, s \in UniverseOfA :
        s \in DOMAIN A.transitions[a] /\ s \in DOMAIN B.transitions[b]

\* C1: generateUnionTransitions returns the table of paired destinations over the
\* symbols of the first automaton when every lookup is defined, and otherwise
\* raises and leaves no table.
C1_PairedDestinationsOrError ==
    Constructed =>
        IF AllLookupsDefined
        THEN /\ pc # "error"
             /\ DOMAIN union_transitions = A.states \X B.states
             /\ \A p \in A.states \X B.states :
                   /\ DOMAIN union_transitions[p] = UniverseOfA
                   /\ \A s \in UniverseOfA :
                         union_transitions[p][s] =
                             <<A.transitions[p[1]][s], B.transitions[p[2]][s]>>
        ELSE /\ pc = "error"
             /\ union_transitions = <<>>

\* a table over four product states, built from symbol 0 alone although a state of
\* the second automaton also has symbol 1
C1_Witness ==
    /\ pc = "accepts"
    /\ Cardinality(DOMAIN union_transitions) = 4
    /\ UniverseOfA = {"0"}
    /\ \E b \in B.states : "1" \in DOMAIN B.transitions[b]
    /\ \E p \in union_states : union_transitions[p]["0"] # p

\* C2: a pair of the product is accepting exactly when its first component is
\* accepting in the first automaton or its second in the second, and no other
\* pair is accepting.
C2_AcceptIffEither ==
    pc \in {"start", "validate"} =>
        /\ union_accepts \subseteq A.states \X B.states
        /\ \A a \in A.states, b \in B.states :
              <<a, b>> \in union_accepts <=> (a \in A.accepts \/ b \in B.accepts)

\* the four truth combinations occur among the pairs of one product
C2_Witness ==
    /\ pc = "start"
    /\ \E p \in union_states : p[1] \in A.accepts /\ p[2] \in B.accepts
    /\ \E p \in union_states : p[1] \in A.accepts /\ p[2] \notin B.accepts
    /\ \E p \in union_states : p[1] \notin A.accepts /\ p[2] \in B.accepts
    /\ \E p \in union_states : p[1] \notin A.accepts /\ p[2] \notin B.accepts
    /\ Cardinality(union_accepts) = 3

\* C10: when the construction succeeds every state of the first automaton has the
\* same symbols, the symbols the validator reads off the first state are the
\* constructor's, every product state has exactly these symbols, and the validator
\* reports no missing entry and no missing symbol.
C10_UniformSymbols ==
    (Constructed /\ pc # "error") =>
        /\ \A a \in A.states : DOMAIN A.transitions[a] = UniverseOfA
        /\ RefSymbols(A) = UniverseOfA
        /\ \A p \in union_states : DOMAIN union_transitions[p] = UniverseOfA
        /\ \A i \in 1..Len(errors) : errors[i].kind \notin {"notrans", "missing"}
        /\ \A i \in 1..Len(validation.errors) :
              validation.errors[i].kind \notin {"notrans", "missing"}

\* a validated union of two two-state automata over both symbols, with other findings
C10_Witness ==
    /\ pc = "validated"
    /\ Cardinality(A.states) = 2
    /\ UniverseOfA = {"0", "1"}
    /\ Len(validation.errors) >= 2

----------------------------------------------------------------------------
(* Claims about __main__ *)

\* C5: the union is written only after both reads, the construction and the
\* validation have succeeded, in this order; a read error, a construction error
\* and a failed validation end the run with nothing written, and after a
\* construction error the validator has not run.
C5_OutputOnlyAfterSuccess ==
    /\ outFile # NoFile =>
          log = <<"read1 ok", "read2 ok", "construct ok", "validate ok", "output">>
    /\ (\E i \in 1..Len(log) : log[i] = "output") => outFile # NoFile
    /\ pc \in {"exit", "error", "failed"} => outFile = NoFile
    /\ pc = "exit" => log \in {<<"read1 error">>, <<"read1 ok", "read2 error">>}
    /\ pc = "error" =>
          /\ log = <<"read1 ok", "read2 ok", "construct error">>
          /\ validation = NoValidation /\ errors = <<>> /\ iterOrder = <<>>
    /\ pc = "failed" =>
          /\ log = <<"read1 ok", "read2 ok", "construct ok", "validate fail">>
          /\ validation.result = "Validation Fail"

\* the file has been written
C5_Witness ==
    /\ pc = "done"
    /\ outFile # NoFile
    /\ validation.result = "Validation Success"
    /\ Cardinality(union_states) = 4

----------------------------------------------------------------------------
(* Claims about validateUnionDFA *)

\* the states one transition of the table away from a state of S
SuccessorsOf(S) ==
    UNION {{union_transitions[p][s] : s \in DOMAIN union_transitions[p]} :
              p \in S \cap DOMAIN union_transitions}

\* the states reached from S by zero or more transitions of the table
RECURSIVE Closure(_)
Closure(S) == IF SuccessorsOf(S) \subseteq S THEN S ELSE Closure(S \cup SuccessorsOf(S))

ReachableFromStart == Closure({union_start})

Returned == pc = "validated"

UnreachableReported ==
    {validation.errors[i].set : i \in {j \in 1..Len(validation.errors) :
                                          validation.errors[j].kind = "unreachable"}}

\* C3: the returned error list has an unreachable-states finding exactly when some
\* product state is not reached from the start state by transitions of the table,
\* and the finding names exactly those product states.
C3_UnreachableIffNotReached ==
    Returned =>
        /\ (UnreachableReported # {}) <=> (union_states \ ReachableFromStart # {})
        /\ \A set \in UnreachableReported : set = union_states \ ReachableFromStart

\* some product states are reached, one of them through a state outside the product
\* set, and another product state is reported unreachable
C3_Witness ==
    /\ Returned
    /\ UnreachableReported = {{P3}}
    /\ union_states = {P2, P3}
    /\ union_start = P1
    /\ P2 \in ReachableFromStart

\* C6: validateUnionDFA never raises, whatever its arguments.
C6_NeverRaises == pc # "raised" /\ validation.result # "StopIteration"

\* the findings the four checks have to produce
ExpectedStart ==
    IF union_start \notin union_states
    THEN {Finding("start", union_start, "", NoState, {})}
    ELSE {}

ExpectedOfState(p) ==
    IF p \notin DOMAIN union_transitions
    THEN {Finding("notrans", p, "", NoState, {})}
    ELSE LET absent == {s \in RefSymbols(A) : s \notin DOMAIN union_transitions[p]}
             dangling == {s \in RefSymbols(A) \ absent :
                             union_transitions[p][s] \notin union_states}
         IN  {Finding("missing", p, s, NoState, {}) : s \in absent}
             \cup {Finding("invalid", p, s, union_transitions[p][s], {}) : s \in dangling}

ExpectedTransition == UNION {ExpectedOfState(p) : p \in union_states}

ExpectedAccept ==
    {Finding("accept", p, "", NoState, {}) : p \in union_accepts \ union_states}

ExpectedUnreachable ==
    IF union_states \subseteq ReachableFromStart
    THEN {}
    ELSE {Finding("unreachable", NoState, "", NoState, union_states \ ReachableFromStart)}

KindRank(kind) ==
    CASE kind = "start" -> 1
      [] kind \in {"notrans", "missing", "invalid"} -> 2
      [] kind = "accept" -> 3
      [] kind = "unreachable" -> 4

PlaceInOrder(p) == CHOOSE i \in 1..Len(iterOrder) : iterOrder[i] = p

\* C7: the returned value is Validation Success exactly when no check has a
\* finding; otherwise the error list holds every finding of the four checks, each
\* once: the start finding, then the transition findings state by state in the
\* iteration order of the state set, then the accept findings, then the one
\* unreachable-states finding.
C7_AllFindingsInOrder ==
    Returned =>
        LET errs == validation.errors
            expected == ExpectedStart \cup ExpectedTransition \cup ExpectedAccept
                            \cup ExpectedUnreachable
        IN  /\ validation.result = (IF expected = {} THEN "Validation Success"
                                                       ELSE "Validation Fail")
            /\ Range(errs) = expected
            /\ Len(errs) = Cardinality(expected)
            /\ \A i \in 1..Len(errs), j \in 1..Len(errs) :
                  i < j =>
                     /\ KindRank(errs[i].kind) <= KindRank(errs[j].kind)
                     /\ (KindRank(errs[i].kind) = 2 /\ KindRank(errs[j].kind) = 2)
                           => PlaceInOrder(errs[i].state) <= PlaceInOrder(errs[j].state)
                     /\ errs[i].kind # "unreachable"

\* a start finding, transition findings of two states (the state with the larger
\* name iterated first), an accept finding and the unreachable-states finding
C7_Witness ==
    /\ Returned
    /\ LET errs == validation.errors IN
       /\ Len(errs) >= 5
       /\ errs[1].kind = "start"
       /\ errs[2].kind = "invalid" /\ errs[2].state = P2
       /\ \E i \in 3..Len(errs) : errs[i].kind = "missing" /\ errs[i].state = P1
       /\ \E i \in 3..Len(errs) : errs[i].kind = "accept"
       /\ errs[Len(errs)].kind = "unreachable"

\* C9: the traversal ends, adds each state to the visited set at most once, and
\* ends with the visited set equal to the set of states reachable from the start
\* state, whichever element of the stack is taken next.
C9_TraversalEndsWithReachableSet ==
    /\ <>(pc \in {"validated", "raised"})
    /\ [](\A p \in DOMAIN adds : adds[p] <= 1)
    /\ [](reachable \subseteq ReachableFromStart)
    /\ []((pc = "traverse" /\ stack = <<>>) \/ pc = "validated"
             => reachable = ReachableFromStart)

\* a traversal over three states that has ended
C9_Witness ==
    /\ pc = "validated"
    /\ reachable = {P1, P2, P3}
    /\ \A p \in reachable : adds[p] = 1

----------------------------------------------------------------------------
(* Claims about the union as a machine *)

\* C8: after any word over the symbols of the first automaton, read from the start
\* states, the union is in the pair of the states the two automata are in, and it
\* is in an accepting state exactly when one of the two automata is.
C8_Lockstep ==
    pc = "run" =>
        /\ runU = <<runA, runB>>
        /\ runU \in union_states
        /\ runU \in union_accepts <=> (runA \in A.accepts \/ runB \in B.accepts)

\* after two symbols or more the union has left its start state and accepts because
\* the second automaton does, the first one not accepting
C8_Witness ==
    /\ pc = "run"
    /\ word >= 2
    /\ runU # union_start
    /\ runA # A.start
    /\ runU \in union_accepts
    /\ runA \notin A.accepts

----------------------------------------------------------------------------
(* Claims about the written file *)

\* the automaton read back is the product renamed by tup_to_name
IsomorphicToUnion(d) ==
    /\ \A p \in union_states, q \in union_states : tup_to_name(p) = tup_to_name(q) => p = q
    /\ d.states = {tup_to_name(p) : p \in union_states}
    /\ d.start = tup_to_name(union_start)
    /\ d.accepts = {tup_to_name(p) : p \in union_accepts}
    /\ DOMAIN d.transitions = {tup_to_name(p) : p \in union_states}
    /\ \A p \in union_states :
          /\ DOMAIN d.transitions[tup_to_name(p)] = DOMAIN union_transitions[p]
          /\ \A s \in DOMAIN union_transitions[p] :
                d.transitions[tup_to_name(p)][s] = tup_to_name(union_transitions[p][s])

\* C4: the file written for a validated union is read back by readDFA without
\* error, as an automaton isomorphic to the product under (a,b) -> "a,b".
C4_RoundTrip ==
    pc = "reloaded" => (reloaded.ok /\ IsomorphicToUnion(reloaded.dfa))

====
